---- MODULE Spec2Model ----
(***************************************************************************)
(* browse-pdb.ipynb: view_structure(df) builds a 'structure' slider and    *)
(* hands the callback view3d to ipywidgets.interact.  The kernel is one    *)
(* thread: it runs view3d statement by statement, and the changes the user *)
(* makes to the controls meanwhile wait in the comm queue.                 *)
(***************************************************************************)
EXTENDS Integers, Sequences, FiniteSets, TLC

VARIABLES
    df,         \* the fetched table: its idList column, in fetch order
    ui,         \* "failed" | "created" | "shown": the control set of interact
    controls,   \* kernel-side values of the four controls
    queue,      \* control changes sent by the front end, not yet handled
    pc,         \* position of the kernel inside view3d, or "idle"
    kwargs,     \* the four arguments of the running invocation
    pdb_id,     \* view3d's local pdb_id
    viewer,     \* view3d's local viewer (the py3Dmol.view object)
    out,        \* the output area of the interact widget
    log,        \* every call made so far, tagged with its invocation
    ninv,       \* invocations of view3d begun so far
    nchanges    \* control changes made by the user so far

vars == <<df, ui, controls, queue, pc, kwargs, pdb_id, viewer, out, log,
          ninv, nchanges>>

(* ------------------------------ bounds -------------------------------- *)

\* longest fetched list tried besides the five rows the notebook shows
MaxN == 2
\* control changes the user makes in one run
MaxChanges == 2

(* ------------------------- the fetched table -------------------------- *)

\* pdb_ids.head(): the first five rows of the idList column
HeadIds == <<"100D", "101D", "101M", "102D", "102L">>

Min(a, b) == IF a < b THEN a ELSE b

\* the tables view_structure is applied to: the first n fetched rows
IdLists == {SubSeq(HeadIds, 1, Min(n, Len(HeadIds))) : n \in 0..MaxN} \cup {HeadIds}

(* ------------------------------ controls ------------------------------ *)

\* IntSlider(min=1, ...)
SliderMin == 1
\* IntSlider(..., max=len(df), ...)
SliderMax == Len(df)

\* interact(..., size=750, ...)
SizeInit == 750
\* the integer abbreviation size=750 is an IntSlider from -750 to 3*750
SizeMin == -SizeInit
SizeMax == 3 * SizeInit

\* a slider that enforces its upper end only
ClampUpperOnly(v, lo, hi) == IF v > hi THEN hi ELSE v

\* a bounded slider keeps the value the user asks for inside [lo, hi]
Clamp(v, lo, hi) == IF v < lo THEN lo ELSE IF v > hi THEN hi ELSE v

\* interact(view3d, show_bio_assembly=False, show_surface=False, size=750,
\*          i=s_widget); the slider without a value starts at its minimum
InitialControls ==
    [show_bio_assembly |-> FALSE,
     show_surface      |-> FALSE,
     size              |-> SizeInit,
     i                 |-> Clamp(0, SliderMin, SliderMax)]

NoControls == <<>>
NoKwargs == <<>>
NoId == ""
NoViewer == <<>>

\* positions the user tries to drag a slider to, one past each end included
IndexAttempts == (SliderMin - 1)..(SliderMax + 1)
SizeAttempts == {SizeMin - 1, 0, SizeMax + 1}

RECURSIVE LastQueued(_, _)
\* the value the front end shows for a control: the last change it sent,
\* or the kernel's value when none is waiting
LastQueued(q, c) ==
    IF q = <<>> THEN controls[c]
    ELSE IF q[Len(q)].ctl = c THEN q[Len(q)].val
    ELSE LastQueued(SubSeq(q, 1, Len(q) - 1), c)

(* ------------------------------ view3d -------------------------------- *)

\* the row taken as the slider's value itself: df.iloc[i]
RowOfUnshifted(i) == i

\* the row expression i-1 of df.iloc[i-1]
RowOf(i) == i - 1

\* df.iloc[k]: positional, 0-based; a negative k counts from the end
IlocInRange(s, k) == -Len(s) <= k /\ k < Len(s)
Iloc(s, k) == IF k >= 0 THEN s[k + 1] ELSE s[Len(s) + k + 1]

Event(call, arg) == [inv |-> ninv, call |-> call, arg |-> arg]

\* viewer.setStyle({'cartoon': {'color': 'spectrum', 'width': 0.6}})
PolymerStyle == <<"cartoon", "color:spectrum", "width:0.6">>
\* viewer.setStyle({'hetflag': True}, {'stick': {'radius': 0.3, 'singleBond': False}})
HetStyle == <<"hetflag:True", "stick", "radius:0.3", "singleBond:False">>
\* viewer.addSurface(py3Dmol.SES, {'opacity': 0.8, 'color': 'lightblue'}, {})
SurfaceSpec == <<"SES", "opacity:0.8", "color:lightblue">>

\* a viewer that is not fresh: it keeps the directives of the viewer on display
NewViewerReused(id, assembly, size) ==
    [query      |-> <<"pdb:", id>>,
     doAssembly |-> assembly,
     width      |-> size,
     height     |-> size,
     cmds       |-> IF Len(out) = 2 THEN out[2].view.cmds ELSE <<>>]

\* py3Dmol.view(query='pdb:' + pdb_id, options={'doAssembly': ...},
\*              width=size, height=size)
NewViewer(id, assembly, size) ==
    [query      |-> <<"pdb:", id>>,
     doAssembly |-> assembly,
     width      |-> size,
     height     |-> size,
     cmds       |-> <<>>]

\* print("Click and drag mouse to rotate structure: PDB ID", pdb_id)
Caption(id) == <<"Click and drag mouse to rotate structure: PDB ID", id>>

Traceback == [kind |-> "traceback"]

\* interactive.update: read the four controls and call view3d with them
Begin(c) ==
    /\ kwargs' = c
    /\ ninv' = ninv + 1
    /\ pc' = "iloc"
    /\ log' = Append(log, [inv |-> ninv + 1, call |-> "view3d", arg |-> c])

\* an exception leaves view3d; interactive.update shows the traceback in
\* place of the previous output
Raise(l) ==
    /\ pc' = "idle"
    /\ out' = <<Traceback>>
    /\ log' = Append(l, Event("raise", <<>>))
    /\ kwargs' = NoKwargs
    /\ pdb_id' = NoId
    /\ viewer' = NoViewer

(* ------------------------------ actions ------------------------------- *)

Init ==
    /\ df \in IdLists
    /\ ui = IF SliderMax < SliderMin THEN "failed" ELSE "created"
    /\ controls = IF SliderMax < SliderMin THEN NoControls ELSE InitialControls
    /\ queue = <<>>
    /\ pc = "idle"
    /\ kwargs = NoKwargs
    /\ pdb_id = NoId
    /\ viewer = NoViewer
    /\ out = <<>>
    /\ log = <<>>
    /\ ninv = 0
    /\ nchanges = 0

\* interact displays the control set and runs the callback once
OnDisplayed ==
    /\ ui = "created"
    /\ pc = "idle"
    /\ ui' = "shown"
    /\ Begin(controls)
    /\ UNCHANGED <<df, controls, queue, pdb_id, viewer, out, nchanges>>

Send(c, v) ==
    /\ ui = "shown"
    /\ nchanges < MaxChanges
    /\ v # LastQueued(queue, c)
    /\ queue' = Append(queue, [ctl |-> c, val |-> v])
    /\ nchanges' = nchanges + 1
    /\ UNCHANGED <<df, ui, controls, pc, kwargs, pdb_id, viewer, out, log, ninv>>

\* the user ticks or unticks the show_bio_assembly checkbox
ToggleAssembly ==
    /\ ui = "shown"
    /\ Send("show_bio_assembly", ~LastQueued(queue, "show_bio_assembly"))

\* the user ticks or unticks the show_surface checkbox
ToggleSurface ==
    /\ ui = "shown"
    /\ Send("show_surface", ~LastQueued(queue, "show_surface"))

\* the user moves the size slider
MoveSize ==
    /\ ui = "shown"
    /\ \E v \in SizeAttempts : Send("size", Clamp(v, SizeMin, SizeMax))

\* the user moves the structure slider
MoveStructure ==
    /\ ui = "shown"
    /\ \E v \in IndexAttempts : Send("i", Clamp(v, SliderMin, SliderMax))

\* a dispatch that does not wait for the running invocation to return
DispatchReentrant ==
    /\ queue # <<>>
    /\ LET m == Head(queue)
           c == [controls EXCEPT ![m.ctl] = m.val]
       IN  /\ controls' = c
           /\ Begin(c)
    /\ queue' = Tail(queue)
    /\ UNCHANGED <<df, ui, pdb_id, viewer, out, nchanges>>

\* a dispatch that calls view3d with the values from before the change
DispatchStale ==
    /\ pc = "idle"
    /\ queue # <<>>
    /\ LET m == Head(queue)
       IN  /\ controls' = [controls EXCEPT ![m.ctl] = m.val]
           /\ Begin(controls)
    /\ queue' = Tail(queue)
    /\ UNCHANGED <<df, ui, pdb_id, viewer, out, nchanges>>

\* the kernel takes the next control change: the control gets its new value
\* and its observer, interactive.update, calls view3d
Dispatch ==
    /\ pc = "idle"
    /\ queue # <<>>
    /\ LET m == Head(queue)
           c == [controls EXCEPT ![m.ctl] = m.val]
       IN  /\ controls' = c
           /\ Begin(c)
    /\ queue' = Tail(queue)
    /\ UNCHANGED <<df, ui, pdb_id, viewer, out, nchanges>>

\* a lookup that prints the header as soon as the identifier is known
LookupPrintsFirst ==
    /\ pc = "iloc"
    /\ IF IlocInRange(df, RowOf(kwargs.i))
       THEN /\ pdb_id' = Iloc(df, RowOf(kwargs.i))
            /\ log' = Append(Append(log, Event("iloc", <<Iloc(df, RowOf(kwargs.i))>>)),
                             Event("print", Caption(Iloc(df, RowOf(kwargs.i)))))
            /\ out' = <<[kind |-> "caption", text |-> Caption(Iloc(df, RowOf(kwargs.i)))]>>
            /\ pc' = "view"
            /\ UNCHANGED <<kwargs, viewer>>
       ELSE Raise(log)
    /\ UNCHANGED <<df, ui, controls, queue, ninv, nchanges>>

\* pdb_id = df.iloc[i-1]['idList']
Lookup ==
    /\ pc = "iloc"
    /\ IF IlocInRange(df, RowOf(kwargs.i))
       THEN /\ pdb_id' = Iloc(df, RowOf(kwargs.i))
            /\ log' = Append(log, Event("iloc", <<Iloc(df, RowOf(kwargs.i))>>))
            /\ pc' = "view"
            /\ UNCHANGED <<kwargs, viewer, out>>
       ELSE Raise(log)
    /\ UNCHANGED <<df, ui, controls, queue, ninv, nchanges>>

\* the structure request that py3Dmol.view(query=..., options=...) stands for
Request(id, assembly) == [query |-> <<"pdb:", id>>, doAssembly |-> assembly]

\* a view that asks for a structure only the first time it is selected
ViewCached ==
    /\ pc = "view"
    /\ viewer' = NewViewer(pdb_id, kwargs.show_bio_assembly, kwargs.size)
    /\ log' = IF \E p \in 1..Len(log) :
                     /\ log[p].call = "view"
                     /\ log[p].arg = Request(pdb_id, kwargs.show_bio_assembly)
              THEN log
              ELSE Append(log, Event("view", Request(pdb_id, kwargs.show_bio_assembly)))
    /\ pc' = "polymer"
    /\ UNCHANGED <<df, ui, controls, queue, kwargs, pdb_id, out, ninv, nchanges>>

\* viewer = py3Dmol.view(query='pdb:' + pdb_id, ...)
View ==
    /\ pc = "view"
    /\ viewer' = NewViewer(pdb_id, kwargs.show_bio_assembly, kwargs.size)
    /\ log' = Append(log, Event("view", Request(pdb_id, kwargs.show_bio_assembly)))
    /\ pc' = "polymer"
    /\ UNCHANGED <<df, ui, controls, queue, kwargs, pdb_id, out, ninv, nchanges>>

\* a failing request that puts the controls back to their initial values
ViewRaisesResets ==
    /\ pc = "view"
    /\ Raise(Append(log, Event("view", Request(pdb_id, kwargs.show_bio_assembly))))
    /\ controls' = InitialControls
    /\ UNCHANGED <<df, ui, queue, ninv, nchanges>>

\* the structure request fails and view3d has no handler around it
ViewRaises ==
    /\ pc = "view"
    /\ Raise(Append(log, Event("view", Request(pdb_id, kwargs.show_bio_assembly))))
    /\ UNCHANGED <<df, ui, controls, queue, ninv, nchanges>>

\* viewer.setStyle({'cartoon': ...})
SetStylePolymer ==
    /\ pc = "polymer"
    /\ viewer' = [viewer EXCEPT !.cmds = Append(@, <<"setStyle", PolymerStyle>>)]
    /\ log' = Append(log, Event("setStyle", PolymerStyle))
    /\ pc' = "het"
    /\ UNCHANGED <<df, ui, controls, queue, kwargs, pdb_id, out, ninv, nchanges>>

\* viewer.setStyle({'hetflag': True}, {'stick': ...})
SetStyleHet ==
    /\ pc = "het"
    /\ viewer' = [viewer EXCEPT !.cmds = Append(@, <<"setStyle", HetStyle>>)]
    /\ log' = Append(log, Event("setStyle", HetStyle))
    /\ pc' = "surface"
    /\ UNCHANGED <<df, ui, controls, queue, kwargs, pdb_id, out, ninv, nchanges>>

\* a surface that is added whatever the flag says
IfShowSurfaceAlways ==
    /\ pc = "surface"
    /\ viewer' = [viewer EXCEPT !.cmds = Append(@, <<"addSurface", SurfaceSpec>>)]
    /\ log' = Append(log, Event("addSurface", SurfaceSpec))
    /\ pc' = "print"
    /\ UNCHANGED <<df, ui, controls, queue, kwargs, pdb_id, out, ninv, nchanges>>

\* if show_surface: viewer.addSurface(py3Dmol.SES, ...)
IfShowSurface ==
    /\ pc = "surface"
    /\ IF kwargs.show_surface
       THEN /\ viewer' = [viewer EXCEPT !.cmds = Append(@, <<"addSurface", SurfaceSpec>>)]
            /\ log' = Append(log, Event("addSurface", SurfaceSpec))
       ELSE UNCHANGED <<viewer, log>>
    /\ pc' = "print"
    /\ UNCHANGED <<df, ui, controls, queue, kwargs, pdb_id, out, ninv, nchanges>>

\* print("Click and drag mouse to rotate structure: PDB ID", pdb_id); the
\* first output of an update replaces what the output area held
PrintHeader ==
    /\ pc = "print"
    /\ out' = <<[kind |-> "caption", text |-> Caption(pdb_id)]>>
    /\ log' = Append(log, Event("print", Caption(pdb_id)))
    /\ pc' = "show"
    /\ UNCHANGED <<df, ui, controls, queue, kwargs, pdb_id, viewer, ninv, nchanges>>

\* return viewer.show()
Show ==
    /\ pc = "show"
    /\ out' = Append(out, [kind |-> "viewer", view |-> viewer])
    /\ log' = Append(log, Event("show", viewer))
    /\ pc' = "idle"
    /\ kwargs' = NoKwargs
    /\ pdb_id' = NoId
    /\ viewer' = NoViewer
    /\ UNCHANGED <<df, ui, controls, queue, ninv, nchanges>>

Next ==
    \/ OnDisplayed
    \/ ToggleAssembly
    \/ ToggleSurface
    \/ MoveSize
    \/ MoveStructure
    \/ Dispatch
    \/ Lookup
    \/ View
    \/ ViewRaises
    \/ SetStylePolymer
    \/ SetStyleHet
    \/ IfShowSurface
    \/ PrintHeader
    \/ Show

Spec == Init /\ [][Next]_vars

(* ------------------------- reading the log ---------------------------- *)

Invocations == 1..ninv

\* the calls of invocation k, in the order they were made
Trace(k) == SelectSeq(log, LAMBDA e : e.inv = k)

\* the four arguments invocation k was called with
Args(k) == Trace(k)[1].arg

Last(s) == s[Len(s)]
Completed(k) == Last(Trace(k)).call = "show"
Raised(k) == Last(Trace(k)).call = "raise"

Untagged(e) == [call |-> e.call, arg |-> e.arg]

RECURSIVE Map(_, _)
Map(s, i) == IF i > Len(s) THEN <<>> ELSE <<Untagged(s[i])>> \o Map(s, i + 1)

\* what invocation k produced: its calls, without the invocation tag
Produced(k) == Map(SelectSeq(Trace(k), LAMBDA e : e.call # "raise"), 1)

\* the rendering directives invocation k issued
Directives(k) ==
    SelectSeq(Produced(k), LAMBDA e : e.call \in {"setStyle", "addSurface"})

CountCalls(s, c) == Len(SelectSeq(s, LAMBDA e : e.call = c))

IsPrefix(a, b) == Len(a) <= Len(b) /\ SubSeq(b, 1, Len(a)) = a

(* ------------------------------ claims -------------------------------- *)

\* C1: an invocation with row index i looks up the i-th identifier of the
\* fetched list (1-based, in fetch order) and its caption names exactly that
\* identifier; in the list 100D, 101D, 101M, 102D, 102L index 3 gives 101M.
C1_IndexResolves ==
    \A k \in Invocations :
        \A p \in 1..Len(Trace(k)) :
            LET e == Trace(k)[p]
                i == Args(k).i
            IN  /\ e.call = "iloc" =>
                    /\ i \in 1..Len(df)
                    /\ e.arg = <<df[i]>>
                    /\ (df = HeadIds /\ i = 3) => e.arg = <<"101M">>
                /\ e.call = "print" =>
                    /\ i \in 1..Len(df)
                    /\ e.arg = Caption(df[i])
                    /\ (df = HeadIds /\ i = 3) => e.arg[2] = "101M"

\* C1 witness: index 3 of the five-row list was selected and captioned 101M
C1_Witness ==
    /\ df = HeadIds
    /\ \E k \in Invocations :
          /\ Args(k).i = 3
          /\ Completed(k)
          /\ \E p \in 1..Len(Trace(k)) :
                Trace(k)[p].call = "print" /\ Trace(k)[p].arg[2] = "101M"

\* C2: the row index held by the structure slider, sent by it, and passed
\* to view3d is always within 1..N; 0 and N+1 never reach the callback.
C2_IndexInBounds ==
    /\ ui # "failed" => controls.i \in 1..Len(df)
    /\ \A q \in 1..Len(queue) :
          queue[q].ctl = "i" => queue[q].val \in 1..Len(df)
    /\ pc # "idle" => kwargs.i \in 1..Len(df)
    /\ \A k \in Invocations : Args(k).i \in 1..Len(df)

\* C2 witness: the slider was moved to its upper end N and view3d ran there
C2_Witness ==
    /\ Len(df) >= 2
    /\ \E k \in Invocations : Args(k).i = Len(df) /\ Completed(k)
    /\ \E k \in Invocations : Args(k).i = 1 /\ Completed(k)

\* C3: for the same identifier, assembly flag and size, the invocation with
\* the surface flag issues exactly one more directive, the addSurface call,
\* than the one without; both issue the same two style directives in the same
\* order; without the flag no surface directive is issued.
C3_SurfaceAddsOne ==
    /\ \A j \in Invocations :
          (Completed(j) /\ ~Args(j).show_surface) =>
              CountCalls(Directives(j), "addSurface") = 0
    /\ \A j, k \in Invocations :
          ( /\ Completed(j) /\ Completed(k)
            /\ ~Args(j).show_surface /\ Args(k).show_surface
            /\ Args(j).i = Args(k).i
            /\ Args(j).show_bio_assembly = Args(k).show_bio_assembly
            /\ Args(j).size = Args(k).size )
          => /\ Len(Directives(j)) = 2
             /\ Len(Directives(k)) = Len(Directives(j)) + 1
             /\ SubSeq(Directives(k), 1, 2) = Directives(j)
             /\ Directives(j)[1].call = "setStyle"
             /\ Directives(j)[2].call = "setStyle"
             /\ Directives(k)[3].call = "addSurface"
             /\ Len(Last(Trace(k)).arg.cmds) = Len(Last(Trace(j)).arg.cmds) + 1

\* C3 witness: the same structure was drawn without and with the surface
C3_Witness ==
    \E j, k \in Invocations :
        /\ Completed(j) /\ Completed(k)
        /\ ~Args(j).show_surface /\ Args(k).show_surface
        /\ Args(j).i = Args(k).i
        /\ Args(j).show_bio_assembly = Args(k).show_bio_assembly
        /\ Args(j).size = Args(k).size

\* C4: view3d keeps nothing between invocations: two invocations with the
\* same four arguments produce the same identifier, request, directives and
\* caption, whatever ran in between (an invocation that is cut short by a
\* failing request has produced the same calls up to there).
C4_NoMemory ==
    \A j, k \in Invocations :
        Args(j) = Args(k) =>
            /\ IsPrefix(Produced(j), Produced(k)) \/ IsPrefix(Produced(k), Produced(j))
            /\ (Completed(j) /\ Completed(k)) => Produced(j) = Produced(k)

\* C4 witness: the same arguments were used twice, another invocation between
C4_Witness ==
    \E j, k \in Invocations :
        /\ j + 1 < k
        /\ Args(j) = Args(k)
        /\ Args(j + 1) # Args(j)
        /\ Completed(j) /\ Completed(j + 1) /\ Completed(k)

\* C5: every invocation issues exactly one structure request: k invocations
\* that got past the request have issued k requests, a revisited identifier
\* is requested again, and a failed request is not repeated.
C5_OneRequestPerInvocation ==
    /\ \A k \in Invocations :
          /\ CountCalls(Trace(k), "view") <= 1
          /\ (Completed(k) \/ Raised(k)) => CountCalls(Trace(k), "view") = 1
          /\ \A p \in 1..Len(Trace(k)) :
                Trace(k)[p].call = "view" =>
                    Trace(k)[p].arg.query = <<"pdb:", df[Args(k).i]>>
    /\ CountCalls(log, "view") = IF pc \in {"iloc", "view"} THEN ninv - 1 ELSE ninv

\* C5 witness: an identifier was revisited after a failed request elsewhere
C5_Witness ==
    /\ pc = "idle"
    /\ \E j, k \in Invocations :
          /\ j < k
          /\ Args(j).i = Args(k).i
          /\ Completed(j) /\ Completed(k)
    /\ \E r \in Invocations : Raised(r)

\* C6: the size passed to view3d through the controls is always positive.
C6_SizePositive ==
    \A k \in Invocations : Args(k).size > 0

\* C7: invocations never overlap: all calls of one invocation, up to its
\* viewer.show() (or the exception that ends it), come before the first call
\* of the next, so no output of an earlier selection follows a later one.
C7_NoOverlap ==
    /\ \A p \in 2..Len(log) :
          \/ log[p].inv = log[p - 1].inv /\ log[p].call # "view3d"
          \/ /\ log[p].inv = log[p - 1].inv + 1
             /\ log[p - 1].call \in {"show", "raise"}
             /\ log[p].call = "view3d"
    /\ \A k \in Invocations : k < ninv => Completed(k) \/ Raised(k)
    /\ pc = "idle" /\ ninv > 0 => Completed(ninv) \/ Raised(ninv)

\* C7 witness: a control change waited while an invocation was running, after
\* an earlier change had been handled
C7_Witness ==
    /\ pc \notin {"idle", "iloc"}
    /\ queue # <<>>
    /\ ninv >= 2

\* C8: the display tracks the controls: the first invocation has the initial
\* values (False, False, 750, 1), every handled change causes exactly one
\* invocation with the current values of all four controls, and when nothing
\* is pending the caption names the identifier at the slider's index.
C8_DisplayTracksControls ==
    /\ ninv >= 1 =>
          Args(1) = [show_bio_assembly |-> FALSE, show_surface |-> FALSE,
                     size |-> 750, i |-> 1]
    /\ ui = "shown" => ninv = 1 + (nchanges - Len(queue))
    /\ ui # "shown" => ninv = 0
    /\ ninv >= 1 => Args(ninv) = controls
    /\ pc # "idle" => kwargs = controls
    /\ (ui = "shown" /\ pc = "idle" /\ queue = <<>>) =>
          \/ out = <<Traceback>> /\ Raised(ninv)
          \/ /\ Completed(ninv)
             /\ Len(out) = 2
             /\ out[1] = [kind |-> "caption", text |-> Caption(df[controls.i])]
             /\ out[2].kind = "viewer"
             /\ out[2].view.query = <<"pdb:", df[controls.i]>>
             /\ out[2].view.doAssembly = controls.show_bio_assembly
             /\ out[2].view.width = controls.size
             /\ out[2].view.height = controls.size

\* C8 witness: after two changes everything is handled and the caption shows
\* a row other than the first
C8_Witness ==
    /\ ui = "shown" /\ pc = "idle" /\ queue = <<>>
    /\ nchanges >= 2
    /\ controls.i # 1
    /\ Len(out) = 2

\* what a complete invocation with arguments a does, in order
Expected(a) ==
    LET id == df[a.i]
    IN  << [call |-> "view3d", arg |-> a],
           [call |-> "iloc", arg |-> <<id>>],
           [call |-> "view",
            arg |-> [query |-> <<"pdb:", id>>, doAssembly |-> a.show_bio_assembly]],
           [call |-> "setStyle", arg |-> <<"cartoon", "color:spectrum", "width:0.6">>],
           [call |-> "setStyle",
            arg |-> <<"hetflag:True", "stick", "radius:0.3", "singleBond:False">>] >>
        \o (IF a.show_surface
            THEN << [call |-> "addSurface",
                     arg |-> <<"SES", "opacity:0.8", "color:lightblue">>] >>
            ELSE <<>>)
        \o << [call |-> "print",
               arg |-> <<"Click and drag mouse to rotate structure: PDB ID", id>>] >>

\* the calls of invocation k before its final viewer.show()
BeforeShow(k) == SelectSeq(Produced(k), LAMBDA e : e.call # "show")

\* C9: within one invocation the steps come in a fixed order: lookup, request
\* (identifier and assembly flag), polymer style, non-polymer style, surface
\* only if asked for, caption, and last the viewer; the assembly flag shows
\* up in the request only.
C9_StepOrder ==
    \A k \in Invocations :
        /\ IsPrefix(BeforeShow(k), Expected(Args(k)))
        /\ Completed(k) =>
              /\ BeforeShow(k) = Expected(Args(k))
              /\ Len(Produced(k)) = Len(BeforeShow(k)) + 1
              /\ Last(Produced(k)).arg.cmds =
                    (IF Args(k).show_surface
                     THEN << <<"setStyle", PolymerStyle>>, <<"setStyle", HetStyle>>,
                             <<"addSurface", SurfaceSpec>> >>
                     ELSE << <<"setStyle", PolymerStyle>>, <<"setStyle", HetStyle>> >>)
        /\ \A j \in Invocations :
              ( /\ Completed(j) /\ Completed(k)
                /\ Args(j) = [Args(k) EXCEPT !.show_bio_assembly = ~@] )
              => /\ \A p \in 1..Len(BeforeShow(k)) :
                       BeforeShow(k)[p].call \notin {"view3d", "view"} =>
                           BeforeShow(j)[p] = BeforeShow(k)[p]
                 /\ Last(Produced(j)).arg.cmds = Last(Produced(k)).arg.cmds

\* C9 witness: complete invocations with and without the assembly flag, one
\* of them with the surface
C9_Witness ==
    \E j, k \in Invocations :
        /\ Completed(j) /\ Completed(k)
        /\ Args(j) = [Args(k) EXCEPT !.show_bio_assembly = ~@]
        /\ Args(k).show_surface

\* C10: running view3d changes neither the fetched list nor the selection:
\* the list stays as fetched, and a control's value changes only when the
\* kernel handles the user's change of that control.
C10_FrameOfView3d ==
    [][ /\ df' = df
        /\ controls' # controls =>
              /\ pc = "idle"
              /\ queue # <<>>
              /\ queue' = Tail(queue)
              /\ controls' = [controls EXCEPT ![Head(queue).ctl] = Head(queue).val]
      ]_vars

\* C10 witness: invocations have completed and failed, and the controls were
\* changed by the user in between
C10_Witness ==
    /\ pc = "idle"
    /\ controls # InitialControls
    /\ \E k \in Invocations : Completed(k)
    /\ \E k \in Invocations : Raised(k)

====
